---- MODULE Spec2Model ----
(***************************************************************************)
(* A model of gen_san_strings.py: the generators of every SAN string       *)
(* (pawn, piece and king moves), the ray helper they use, the shared       *)
(* scratch board _b, and main, which sorts the catalogue and crosses it    *)
(* with the check and mate suffixes.                                       *)
(*                                                                         *)
(* A bitboard is modelled as the set of its squares, a Python string as    *)
(* the sequence of its one-character strings, a Python set as a set and a  *)
(* Python list as a sequence.                                              *)
(***************************************************************************)
EXTENDS Integers, Sequences, FiniteSets, TLC

VARIABLES
    b,                      \* the module-level scratch board _b
    main_pc,                \* the statement of main that runs next ("none": main is not running)
    call,                   \* the generator call in progress, or NoCall
    idx,                    \* the call's loop position: how many squares its loop has done
                            \* (get_king_sans runs its loop in one step)
    sans,                   \* the call's local set `sans`
    ret,                    \* outside main: the call that has just returned and its value,
                            \* until the next call starts
    raised,                 \* TRUE once an AssertionError was raised
    pawn_sans, knight_sans, bishop_sans, rook_sans, queen_sans, king_sans,
    all_sans,               \* main's sequence A
    all_sans_with_symbols,  \* main's sequence B
    written,                \* TRUE once main wrote both files
    ray_args,               \* the arguments of a direct call of _extend_ray_from_towards
    ray_ret                 \* what that call returned

vars == <<b, main_pc, call, idx, sans, ret, raised, pawn_sans, knight_sans,
          bishop_sans, rook_sans, queen_sans, king_sans, all_sans,
          all_sans_with_symbols, written, ray_args, ray_ret>>

(***************************************************************************)
(* Geometry of python-chess, as the source uses it.                        *)
(***************************************************************************)
SQUARES == 0..63

WHITE == TRUE

BLACK == FALSE

FILE_NAMES == <<"a", "b", "c", "d", "e", "f", "g", "h">>

RANK_NAMES == <<"1", "2", "3", "4", "5", "6", "7", "8">>

square_file(sq) == sq % 8

square_rank(sq) == sq \div 8

square(f, r) == r * 8 + f

square_name(sq) == <<FILE_NAMES[square_file(sq) + 1], RANK_NAMES[square_rank(sq) + 1]>>

Abs(x) == IF x < 0 THEN -x ELSE x

Max(x, y) == IF x < y THEN y ELSE x

square_distance(s1, s2) ==
    Max(Abs(square_file(s1) - square_file(s2)), Abs(square_rank(s1) - square_rank(s2)))

BB_FILES == [f \in 0..7 |-> {sq \in SQUARES : square_file(sq) = f}]

BB_RANKS == [r \in 0..7 |-> {sq \in SQUARES : square_rank(sq) = r}]

BB_BACKRANKS == BB_RANKS[0] \cup BB_RANKS[7]

\* chess._sliding_attacks walks from `sq` in steps of `delta` until it leaves
\* the board, wraps around an edge, or has added an occupied square.
RECURSIVE Walk(_, _, _)
Walk(sq, delta, occupied) ==
    LET nxt == sq + delta
    IN  IF nxt < 0 \/ nxt >= 64 \/ square_distance(nxt, sq) > 2
        THEN {}
        ELSE {nxt} \cup (IF nxt \in occupied THEN {} ELSE Walk(nxt, delta, occupied))

sliding_attacks(sq, occupied, deltas) ==
    UNION {Walk(sq, d, occupied) : d \in deltas}

step_attacks(sq, deltas) == sliding_attacks(sq, SQUARES, deltas)

(***************************************************************************)
(* The ray helper.                                                         *)
(***************************************************************************)
sign(x) == IF x > 0 THEN 1 ELSE IF x < 0 THEN -1 ELSE 0

\* The two assertions of _sliding_delta.
SlidingDeltaAsserts(s1, s2) ==
    LET x_delta == square_file(s2) - square_file(s1)
        y_delta == square_rank(s2) - square_rank(s1)
    IN  /\ s1 # s2
        /\ (x_delta = 0 \/ y_delta = 0 \/ Abs(x_delta) = Abs(y_delta))

sliding_delta(s1, s2) ==
    LET x_delta == square_file(s2) - square_file(s1)
        y_delta == square_rank(s2) - square_rank(s1)
    IN  sign(y_delta) * 8 + sign(x_delta)

\* Defined when SlidingDeltaAsserts(from_sq, towards_sq) holds; the callers
\* below test the assertions first and raise otherwise.
extend_ray_without_origin(from_sq, towards_sq) ==
    sliding_attacks(from_sq, {}, {sliding_delta(from_sq, towards_sq)})

extend_ray_from_towards(from_sq, towards_sq) ==
    sliding_attacks(from_sq, {}, {sliding_delta(from_sq, towards_sq)}) \cup {from_sq}

(***************************************************************************)
(* chess.Board, as far as the generators use it: the side to move and the  *)
(* piece on each square.  A piece is its symbol ("P" a white pawn, "p" a   *)
(* black one); None marks an empty square.                                 *)
(***************************************************************************)
None == "None"

KNIGHT == "n"

PAWN == "p"

Lower ==
    [sym \in {"P", "N", "B", "R", "Q", "K", "p", "n", "b", "r", "q", "k"} |->
        CASE sym \in {"P", "p"} -> "p"
          [] sym \in {"N", "n"} -> "n"
          [] sym \in {"B", "b"} -> "b"
          [] sym \in {"R", "r"} -> "r"
          [] sym \in {"Q", "q"} -> "q"
          [] sym \in {"K", "k"} -> "k"]

\* chess.Piece.from_symbol: the piece type is the lower-cased symbol, the
\* colour is white for an upper-case symbol.
piece_type(piece) == Lower[piece]

piece_color(piece) == piece \in {"P", "N", "B", "R", "Q", "K"}

\* chess.Board.empty(): no pieces, white to move.
EmptyBoard == [turn |-> WHITE, pieces |-> [sq \in SQUARES |-> None]]

\* Board.clear_board() removes the pieces and keeps the side to move.
clear_board(board) == [board EXCEPT !.pieces = [sq \in SQUARES |-> None]]

set_piece_at(board, sq, piece) == [board EXCEPT !.pieces[sq] = piece]

\* for s in squares: board.set_piece_at(s, piece)
set_pieces_at(board, squares, piece) ==
    [board EXCEPT !.pieces = [sq \in SQUARES |->
        IF sq \in squares THEN piece ELSE board.pieces[sq]]]

occupied(board) == {sq \in SQUARES : board.pieces[sq] # None}

occupied_co(board, color) ==
    {sq \in SQUARES : board.pieces[sq] # None /\ piece_color(board.pieces[sq]) = color}

PawnDeltas(color) == IF color = WHITE THEN {7, 9} ELSE {-7, -9}

KnightDeltas == {17, 15, 10, 6, -17, -15, -10, -6}

KingDeltas == {9, 8, 7, 1, -9, -8, -7, -1}

DiagDeltas == {-9, -7, 7, 9}

LineDeltas == {-8, 8, -1, 1}

\* Board.attacks(sq): the squares the piece on sq attacks, sliding pieces
\* stopping at the first occupied square.
attacks(board, sq) ==
    LET piece == board.pieces[sq]
        pt == IF piece = None THEN None ELSE piece_type(piece)
    IN  CASE pt = None -> {}
          [] pt = "p" -> step_attacks(sq, PawnDeltas(piece_color(piece)))
          [] pt = "n" -> step_attacks(sq, KnightDeltas)
          [] pt = "k" -> step_attacks(sq, KingDeltas)
          [] pt = "b" -> sliding_attacks(sq, occupied(board), DiagDeltas)
          [] pt = "r" -> sliding_attacks(sq, occupied(board), LineDeltas)
          [] pt = "q" -> sliding_attacks(sq, occupied(board), DiagDeltas \cup LineDeltas)

PromotionPieces == {"Q", "R", "B", "N"}


\* No promotion on a back rank.
PawnMovesPlain(from_sq, to_sq) ==
    {[from_square |-> from_sq, to_square |-> to_sq, promotion |-> None]}

\* The moves python-chess yields for one pawn step from `from_sq` to `to_sq`:
\* the four promotions on a back rank, the plain move elsewhere.
PawnMoves(from_sq, to_sq) ==
    IF square_rank(to_sq) \in {0, 7}
    THEN {[from_square |-> from_sq, to_square |-> to_sq, promotion |-> p] :
            p \in PromotionPieces}
    ELSE {[from_square |-> from_sq, to_square |-> to_sq, promotion |-> None]}

\* Board.legal_moves on a board that holds only pawns: without a king of the
\* side to move every pseudo-legal move is legal; there is no en passant
\* square because clear_board() cleared the move stack and nothing was pushed.
legal_moves(board) ==
    LET us == board.turn
        dir == IF us = WHITE THEN 8 ELSE -8
        pawns == {sq \in occupied_co(board, us) : piece_type(board.pieces[sq]) = PAWN}
        occ == occupied(board)
        captures ==
            UNION {PawnMoves(f, t) : <<f, t>> \in
                {<<f, t>> \in pawns \X SQUARES :
                    t \in step_attacks(f, PawnDeltas(us)) \cap occupied_co(board, ~us)}}
        single_moves == {sq + dir : sq \in pawns} \cap (SQUARES \ occ)
        double_ranks == IF us = WHITE THEN BB_RANKS[2] \cup BB_RANKS[3]
                                      ELSE BB_RANKS[5] \cup BB_RANKS[4]
        double_moves ==
            {sq + dir : sq \in single_moves} \cap (SQUARES \ occ) \cap double_ranks
    IN  captures
        \cup UNION {PawnMoves(t - dir, t) : t \in single_moves}
        \cup {[from_square |-> t - 2 * dir, to_square |-> t, promotion |-> None] :
                t \in double_moves}

\* Board.san(move) for a pawn move on a board without kings: no check or
\* mate suffix can arise.
san(board, move) ==
    LET capture == move.to_square \in occupied_co(board, ~board.turn)
    IN  (IF capture THEN <<FILE_NAMES[square_file(move.from_square) + 1], "x">> ELSE <<>>)
        \o square_name(move.to_square)
        \o (IF move.promotion # None THEN <<"=", move.promotion>> ELSE <<>>)

(***************************************************************************)
(* get_pawn_sans                                                           *)
(***************************************************************************)
PAWN_OCCUPIABLE == SQUARES \ BB_BACKRANKS

\* The colours get_pawn_sans works through, in order.
PawnColors(only_for_color) ==
    (IF only_for_color \in {"WHITE", None} THEN <<WHITE>> ELSE <<>>)
    \o (IF only_for_color \in {"BLACK", None} THEN <<BLACK>> ELSE <<>>)

\* The squares of a SquareSet in the order its iteration yields them.
RECURSIVE Ascending(_)
Ascending(squares) ==
    IF squares = {} THEN <<>>
    ELSE LET lo == CHOOSE sq \in squares : \A other \in squares : sq <= other
         IN  <<lo>> \o Ascending(squares \ {lo})

PawnOccupiableSeq == Ascending(PAWN_OCCUPIABLE)

\* The side to move set for black only, white taken for granted.
set_turn_black_only(board, color) ==
    IF color = BLACK THEN [board EXCEPT !.turn = BLACK] ELSE board

\* add_pawn_sans_for_color sets the side to move before its loop.
set_turn(board, color) == [board EXCEPT !.turn = color]

\* One pass of the loop of add_pawn_sans_for_color: the board after it and
\* the strings it adds.
PawnIteration(board, color, from_square) ==
    LET self_pawn == IF color = WHITE THEN "P" ELSE "p"
        other_pawn == IF color = WHITE THEN "p" ELSE "P"
        b1 == set_piece_at(clear_board(board), from_square, self_pawn)
        b2 == set_pieces_at(b1, attacks(b1, from_square), other_pawn)
    IN  [board |-> b2, added |-> {san(b2, move) : move \in legal_moves(b2)}]

(***************************************************************************)
(* get_piece_sans                                                          *)
(***************************************************************************)
PieceSymbols == {"N", "B", "R", "Q"}

PieceSymbolAssert(symbol) == symbol \in PieceSymbols


\* Every piece taken for a sliding piece.
is_sliding_piece_always(piece) == TRUE

is_sliding_piece(piece) == piece_type(piece) # KNIGHT

add_sans(symbol, discriminator, to_square) ==
    {<<symbol>> \o discriminator \o capture \o square_name(to_square) :
        capture \in {<<>>, <<"x">>}}


\* The ray left in: only the origin is taken out.
other_origins_with_ray(sliding, bb_attacks, to_square, from_square) ==
    bb_attacks \ {from_square}

\* The squares of bb_attacks that stay after the ray (sliding pieces) or the
\* origin itself (knights) is taken out.
other_origins(sliding, bb_attacks, to_square, from_square) ==
    IF sliding
    THEN bb_attacks \ extend_ray_from_towards(to_square, from_square)
    ELSE bb_attacks \ {from_square}

file_discriminator(sliding, bb_attacks, to_square, from_square) ==
    LET bb == other_origins(sliding, bb_attacks, to_square, from_square)
                \ BB_FILES[square_file(from_square)]
    IN  IF \E f \in 0..7 : BB_FILES[f] \cap bb # {}
        THEN {<<FILE_NAMES[square_file(from_square) + 1]>>}
        ELSE {}


\* The rank test with the file taken out instead of kept.
rank_discriminator_off_file(sliding, bb_attacks, to_square, from_square) ==
    LET bb == other_origins(sliding, bb_attacks, to_square, from_square)
                \ BB_FILES[square_file(from_square)]
    IN  IF \E r \in 0..7 : BB_RANKS[r] \cap bb # {}
        THEN {<<RANK_NAMES[square_rank(from_square) + 1]>>}
        ELSE {}

rank_discriminator(sliding, bb_attacks, to_square, from_square) ==
    LET bb == other_origins(sliding, bb_attacks, to_square, from_square)
                \cap BB_FILES[square_file(from_square)]
    IN  IF \E r \in 0..7 : BB_RANKS[r] \cap bb # {}
        THEN {<<RANK_NAMES[square_rank(from_square) + 1]>>}
        ELSE {}

\* Another piece on the file or on the rank taken for enough.
square_discriminator_either(sliding, bb_attacks, to_square, from_square) ==
    LET bb == other_origins(sliding, bb_attacks, to_square, from_square)
    IN  IF \/ bb \cap BB_FILES[square_file(from_square)] # {}
           \/ bb \cap BB_RANKS[square_rank(from_square)] # {}
        THEN {square_name(from_square)}
        ELSE {}

square_discriminator(sliding, bb_attacks, to_square, from_square) ==
    LET bb == other_origins(sliding, bb_attacks, to_square, from_square)
    IN  IF /\ bb \cap BB_FILES[square_file(from_square)] # {}
           /\ bb \cap BB_RANKS[square_rank(from_square)] # {}
        THEN {square_name(from_square)}
        ELSE {}

\* The discriminators the loop body adds for one from_square.
discriminators(sliding, bb_attacks, to_square, from_square) ==
    file_discriminator(sliding, bb_attacks, to_square, from_square)
    \cup rank_discriminator(sliding, bb_attacks, to_square, from_square)
    \cup square_discriminator(sliding, bb_attacks, to_square, from_square)

\* One pass of the loop over to_square: the board after it, the strings it
\* adds, and whether an assertion of _sliding_delta fails on the way.
PieceIteration(board, symbol, to_square) ==
    LET piece == symbol
        sliding == is_sliding_piece(piece)
        b1 == set_piece_at(clear_board(board), to_square, piece)
        bb_attacks == attacks(b1, to_square)
        fails == sliding /\ \E from_square \in bb_attacks :
                               ~SlidingDeltaAsserts(to_square, from_square)
    IN  [board |-> b1,
         raises |-> fails,
         added |-> IF fails THEN {}
                   ELSE add_sans(symbol, <<>>, to_square) \cup
                        UNION {add_sans(symbol, d, to_square) :
                            d \in UNION {discriminators(sliding, bb_attacks, to_square, f) :
                                            f \in bb_attacks}}]

(***************************************************************************)
(* get_king_sans                                                           *)
(***************************************************************************)
KingIteration(to_square) ==
    {<<"K">> \o square_name(to_square), <<"K", "x">> \o square_name(to_square)}


\* The queen-side token left out.
CastlingSansKingSide == {<<"O", "-", "O">>}

CastlingSans == {<<"O", "-", "O">>, <<"O", "-", "O", "-", "O">>}

(***************************************************************************)
(* sorted(..., key=sort_key) with sort_key(s) = (len(s), s): Python orders *)
(* the keys by length first and then compares the strings code point by    *)
(* code point.                                                             *)
(***************************************************************************)
CodePoint ==
    [c \in {"#", "+", "-", "=", "x"} \cup {"B", "K", "N", "O", "Q", "R"}
           \cup {FILE_NAMES[i] : i \in 1..8} \cup {RANK_NAMES[i] : i \in 1..8} |->
        CASE c = "#" -> 35 [] c = "+" -> 43 [] c = "-" -> 45 [] c = "=" -> 61
          [] c = "B" -> 66 [] c = "K" -> 75 [] c = "N" -> 78 [] c = "O" -> 79
          [] c = "Q" -> 81 [] c = "R" -> 82 [] c = "x" -> 120
          [] c \in {RANK_NAMES[i] : i \in 1..8} ->
                48 + (CHOOSE i \in 1..8 : RANK_NAMES[i] = c)
          [] c \in {FILE_NAMES[i] : i \in 1..8} ->
                96 + (CHOOSE i \in 1..8 : FILE_NAMES[i] = c)]

Min(x, y) == IF x < y THEN x ELSE y

\* s < t for two Python strings.
StrLess(s, t) ==
    \/ \E i \in 1..Min(Len(s), Len(t)) :
          /\ \A j \in 1..(i - 1) : s[j] = t[j]
          /\ CodePoint[s[i]] < CodePoint[t[i]]
    \/ /\ Len(s) < Len(t)
       /\ \A j \in 1..Len(s) : s[j] = t[j]

\* sort_key(s) < sort_key(t)
SortKeyLess(s, t) ==
    \/ Len(s) < Len(t)
    \/ Len(s) = Len(t) /\ StrLess(s, t)

\* The numbers of a finite set in ascending order.
RECURSIVE AscendingNumbers(_)
AscendingNumbers(numbers) ==
    IF numbers = {} THEN <<>>
    ELSE LET lo == CHOOSE n \in numbers : \A other \in numbers : n <= other
         IN  <<lo>> \o AscendingNumbers(numbers \ {lo})

RECURSIVE Concat(_)
Concat(seqs) == IF seqs = <<>> THEN <<>> ELSE Head(seqs) \o Concat(Tail(seqs))

\* sorted() of a list of strings that all have length n and agree before
\* position pos: a stable sort, done bucket by bucket on the code point at pos.
RECURSIVE SortedFrom(_, _, _)
SortedFrom(list, n, pos) ==
    IF Len(list) <= 1 \/ pos > n THEN list
    ELSE LET points == AscendingNumbers({CodePoint[list[i][pos]] : i \in 1..Len(list)})
             Bucket(k) == LET At(s) == CodePoint[s[pos]] = points[k]
                          IN  SelectSeq(list, At)
         IN  Concat([k \in 1..Len(points) |-> SortedFrom(Bucket(k), n, pos + 1)])


\* The list left as it is.
SortedListUnsorted(list) == list

\* sorted(list, key=sort_key) for a list.
SortedList(list) ==
    LET lengths == AscendingNumbers({Len(list[i]) : i \in 1..Len(list)})
        OfLength(k) == LET Has(s) == Len(s) = lengths[k]
                       IN  SelectSeq(list, Has)
    IN  Concat([k \in 1..Len(lengths) |-> SortedFrom(OfLength(k), lengths[k], 1)])

\* The same for a set of strings that all have length n and agree before pos;
\* the order in which Python iterates over the set does not matter, because
\* two different strings never have the same key.
RECURSIVE SortedSetFrom(_, _, _)
SortedSetFrom(strings, n, pos) ==
    IF strings = {} THEN <<>>
    ELSE IF pos > n THEN <<CHOOSE s \in strings : TRUE>>
    ELSE LET points == AscendingNumbers({CodePoint[s[pos]] : s \in strings})
         IN  Concat([k \in 1..Len(points) |->
                SortedSetFrom({s \in strings : CodePoint[s[pos]] = points[k]}, n, pos + 1)])

\* sorted(strings, key=sort_key) for a set.
SortedSet(strings) ==
    LET lengths == AscendingNumbers({Len(s) : s \in strings})
    IN  Concat([k \in 1..Len(lengths) |->
            SortedSetFrom({s \in strings : Len(s) = lengths[k]}, lengths[k], 1)])


\* The check suffix twice, the mate suffix never.
WithSymbolsTwice(list) ==
    Concat([k \in 1..3 |->
        [i \in 1..Len(list) |-> list[i] \o <<<<>>, <<"+">>, <<"+">>>>[k]]])

\* [san + symbol for symbol in ("", "+", "#") for san in all_sans]
WithSymbols(list) ==
    Concat([k \in 1..3 |->
        [i \in 1..Len(list) |-> list[i] \o <<<<>>, <<"+">>, <<"#">>>>[k]]])

(***************************************************************************)
(* The calls and the control state.                                        *)
(***************************************************************************)
NoCall == [fn |-> "none", arg |-> None]

PawnCall(only_for_color) == [fn |-> "get_pawn_sans", arg |-> only_for_color]

PieceCall(symbol) == [fn |-> "get_piece_sans", arg |-> symbol]

KingCall == [fn |-> "get_king_sans", arg |-> None]

Calls ==
    {PawnCall(c) : c \in {None, "WHITE", "BLACK"}}
    \cup {PieceCall(symbol) : symbol \in PieceSymbols}
    \cup {KingCall}

\* The number of passes of the call's loop.
LoopLength(c) ==
    IF c.fn = "get_pawn_sans"
    THEN Len(PawnColors(c.arg)) * Len(PawnOccupiableSeq)
    ELSE Cardinality(SQUARES)

\* The statements of main, in order, and the call each of the first six makes.
MainCalls ==
    [stmt \in {"pawn", "knight", "bishop", "rook", "queen", "king"} |->
        CASE stmt = "pawn" -> PawnCall(None)
          [] stmt = "knight" -> PieceCall("N")
          [] stmt = "bishop" -> PieceCall("B")
          [] stmt = "rook" -> PieceCall("R")
          [] stmt = "queen" -> PieceCall("Q")
          [] stmt = "king" -> KingCall]

MainOrder ==
    <<"pawn", "knight", "bishop", "rook", "queen", "king", "sort", "symbols",
      "write", "done">>

MainPosition(stmt) == CHOOSE i \in 1..Len(MainOrder) : MainOrder[i] = stmt

MainNext(stmt) == MainOrder[MainPosition(stmt) + 1]

NoReturn == [call |-> NoCall, value |-> {}]

NotCalled == [called |-> FALSE, raises |-> FALSE, squares |-> {}]

Init ==
    /\ b = EmptyBoard
    /\ main_pc = "pawn"
    /\ call = NoCall
    /\ idx = 0
    /\ sans = {}
    /\ ret = NoReturn
    /\ raised = FALSE
    /\ pawn_sans = {}
    /\ knight_sans = {}
    /\ bishop_sans = {}
    /\ rook_sans = {}
    /\ queen_sans = {}
    /\ king_sans = {}
    /\ all_sans = <<>>
    /\ all_sans_with_symbols = <<>>
    /\ written = FALSE
    /\ ray_args = <<>>
    /\ ray_ret = NotCalled

main_locals ==
    <<pawn_sans, knight_sans, bishop_sans, rook_sans, queen_sans, king_sans,
      all_sans, all_sans_with_symbols, written>>

ray_vars == <<ray_args, ray_ret>>

\* A call starts: it tests its assertion on the symbol and creates its set.
Enter(c) ==
    /\ call = NoCall
    /\ ~raised
    /\ call' = c
    /\ idx' = 0
    /\ sans' = {}
    /\ raised' = (c.fn = "get_piece_sans" /\ ~PieceSymbolAssert(c.arg))
    /\ ret' = NoReturn
    /\ UNCHANGED <<b, main_locals, ray_vars>>

\* main calls the generator of its current statement.
MainCall ==
    /\ main_pc \in DOMAIN MainCalls
    /\ Enter(MainCalls[main_pc])
    /\ UNCHANGED main_pc

\* The k-th pass of get_pawn_sans over its colours and squares; the first
\* pass for a colour follows the assignment to _b.turn.
PawnPass(board, only_for_color, k) ==
    LET n == Len(PawnOccupiableSeq)
        color == PawnColors(only_for_color)[(k \div n) + 1]
        from_square == PawnOccupiableSeq[(k % n) + 1]
    IN  PawnIteration(IF k % n = 0 THEN set_turn(board, color) ELSE board,
                      color, from_square)

PawnStep ==
    /\ call.fn = "get_pawn_sans"
    /\ ~raised
    /\ idx < LoopLength(call)
    /\ LET pass == PawnPass(b, call.arg, idx)
       IN  /\ b' = pass.board
           /\ sans' = sans \cup pass.added
    /\ idx' = idx + 1
    /\ UNCHANGED <<main_pc, call, ret, raised, main_locals, ray_vars>>

\* One pass of the loop of get_piece_sans over to_square.
PieceStep ==
    /\ call.fn = "get_piece_sans"
    /\ ~raised
    /\ idx < LoopLength(call)
    /\ LET pass == PieceIteration(b, call.arg, idx)
       IN  /\ b' = pass.board
           /\ raised' = pass.raises
           /\ sans' = sans \cup pass.added
    /\ idx' = idx + 1
    /\ UNCHANGED <<main_pc, call, ret, main_locals, ray_vars>>

\* get_king_sans: its loop over the squares and the two castling moves.
KingStep ==
    /\ call.fn = "get_king_sans"
    /\ ~raised
    /\ idx < LoopLength(call)
    /\ sans' = sans \cup UNION {KingIteration(to_square) : to_square \in SQUARES}
                    \cup CastlingSans
    /\ idx' = LoopLength(call)
    /\ UNCHANGED <<b, main_pc, call, ret, raised, main_locals, ray_vars>>

\* The call returns its set; main assigns it to the variable of its statement.
Return ==
    /\ call # NoCall
    /\ ~raised
    /\ idx = LoopLength(call)
    /\ call' = NoCall
    /\ idx' = 0
    /\ sans' = {}
    /\ ret' = IF main_pc = "none" THEN [call |-> call, value |-> sans] ELSE ret
    /\ main_pc' = IF main_pc = "none" THEN main_pc ELSE MainNext(main_pc)
    /\ pawn_sans' = IF main_pc = "pawn" THEN sans ELSE pawn_sans
    /\ knight_sans' = IF main_pc = "knight" THEN sans ELSE knight_sans
    /\ bishop_sans' = IF main_pc = "bishop" THEN sans ELSE bishop_sans
    /\ rook_sans' = IF main_pc = "rook" THEN sans ELSE rook_sans
    /\ queen_sans' = IF main_pc = "queen" THEN sans ELSE queen_sans
    /\ king_sans' = IF main_pc = "king" THEN sans ELSE king_sans
    /\ UNCHANGED <<b, raised, all_sans, all_sans_with_symbols, written, ray_vars>>

\* all_sans = sorted(pawn_sans | ... | king_sans, key=sort_key)
MainSort ==
    /\ main_pc = "sort"
    /\ all_sans' = SortedSet(pawn_sans \cup knight_sans \cup bishop_sans
                             \cup rook_sans \cup queen_sans \cup king_sans)
    /\ main_pc' = MainNext(main_pc)
    /\ UNCHANGED <<b, call, idx, sans, ret, raised, pawn_sans, knight_sans, bishop_sans,
                   rook_sans, queen_sans, king_sans, all_sans_with_symbols, written,
                   ray_vars>>

\* all_sans_with_symbols = sorted([san + symbol ...], key=sort_key)
MainSymbols ==
    /\ main_pc = "symbols"
    /\ all_sans_with_symbols' = SortedList(WithSymbols(all_sans))
    /\ main_pc' = MainNext(main_pc)
    /\ UNCHANGED <<b, call, idx, sans, ret, raised, pawn_sans, knight_sans, bishop_sans,
                   rook_sans, queen_sans, king_sans, all_sans, written, ray_vars>>

\* main writes both files and prints "Done!".
MainWrite ==
    /\ main_pc = "write"
    /\ written' = TRUE
    /\ main_pc' = MainNext(main_pc)
    /\ UNCHANGED <<b, call, idx, sans, ret, raised, pawn_sans, knight_sans, bishop_sans,
                   rook_sans, queen_sans, king_sans, all_sans, all_sans_with_symbols,
                   ray_vars>>

Next ==
    \/ MainCall
    \/ PawnStep
    \/ PieceStep
    \/ KingStep
    \/ Return
    \/ MainSort
    \/ MainSymbols
    \/ MainWrite

\* One run of main.
Spec == Init /\ [][Next]_vars

(***************************************************************************)
(* The generators called in any order by a caller other than main: every   *)
(* call runs to its return before the next one starts.                     *)
(***************************************************************************)
InitIdle ==
    /\ b = EmptyBoard
    /\ main_pc = "none"
    /\ call = NoCall
    /\ idx = 0
    /\ sans = {}
    /\ ret = NoReturn
    /\ raised = FALSE
    /\ pawn_sans = {}
    /\ knight_sans = {}
    /\ bishop_sans = {}
    /\ rook_sans = {}
    /\ queen_sans = {}
    /\ king_sans = {}
    /\ all_sans = <<>>
    /\ all_sans_with_symbols = <<>>
    /\ written = FALSE
    /\ ray_args = <<>>
    /\ ray_ret = NotCalled

AnyCall ==
    /\ main_pc = "none"
    /\ \E c \in Calls : Enter(c)
    /\ UNCHANGED main_pc

NextCalls ==
    \/ AnyCall
    \/ PawnStep
    \/ PieceStep
    \/ KingStep
    \/ Return

SpecCalls == InitIdle /\ [][NextCalls]_vars

(***************************************************************************)
(* _extend_ray_from_towards called on its own with any two squares.        *)
(***************************************************************************)
InitRay ==
    /\ b = EmptyBoard
    /\ main_pc = "none"
    /\ call = NoCall
    /\ idx = 0
    /\ sans = {}
    /\ ret = NoReturn
    /\ raised = FALSE
    /\ pawn_sans = {}
    /\ knight_sans = {}
    /\ bishop_sans = {}
    /\ rook_sans = {}
    /\ queen_sans = {}
    /\ king_sans = {}
    /\ all_sans = <<>>
    /\ all_sans_with_symbols = <<>>
    /\ written = FALSE
    /\ ray_args \in SQUARES \X SQUARES
    /\ ray_ret = NotCalled

\* The call raises when an assertion of _sliding_delta fails and returns the
\* ray otherwise.
RayCall ==
    /\ ray_args # <<>>
    /\ ~ray_ret.called
    /\ ray_ret' =
        IF SlidingDeltaAsserts(ray_args[1], ray_args[2])
        THEN [called |-> TRUE, raises |-> FALSE,
              squares |-> extend_ray_from_towards(ray_args[1], ray_args[2])]
        ELSE [called |-> TRUE, raises |-> TRUE, squares |-> {}]
    /\ UNCHANGED <<b, main_pc, call, idx, sans, ret, raised, main_locals, ray_args>>

NextRay == RayCall

SpecRay == InitRay /\ [][NextRay]_vars

(***************************************************************************)
(* The claims.                                                             *)
(***************************************************************************)
\* main has executed statement stmt.
MainPast(stmt) ==
    main_pc # "none" /\ MainPosition(main_pc) > MainPosition(stmt)

\* The squares on the half-line that starts at `origin`, passes `through`
\* and ends at the board edge, from the k-th step on, by file and rank.
HalfLine(origin, through, first) ==
    LET sx == sign(square_file(through) - square_file(origin))
        sy == sign(square_rank(through) - square_rank(origin))
    IN  {sq \in SQUARES : \E k \in first..7 :
            /\ square_file(sq) = square_file(origin) + k * sx
            /\ square_rank(sq) = square_rank(origin) + k * sy}

SameLine(s1, s2) ==
    \/ square_file(s1) = square_file(s2)
    \/ square_rank(s1) = square_rank(s2)
    \/ Abs(square_file(s1) - square_file(s2)) = Abs(square_rank(s1) - square_rank(s2))

RayReturned ==
    /\ ray_ret.called
    /\ ray_args[1] # ray_args[2]
    /\ SameLine(ray_args[1], ray_args[2])

\* C9 as stated: for two distinct squares on a common line the helper returns
\* the squares from `through` on, away from `origin`, to the edge; neither
\* `origin` nor a square strictly between the two is in it.
C9_RayStartsAtThrough ==
    RayReturned =>
        /\ ~ray_ret.raises
        /\ ray_ret.squares =
            HalfLine(ray_args[1], ray_args[2], square_distance(ray_args[1], ray_args[2]))

\* C9 amended: for two distinct squares on a common line the helper returns
\* the squares from `origin` on, through `through`, to the edge: origin, every
\* square strictly between the two, `through` and every square beyond it.
C9_RayStartsAtOrigin ==
    RayReturned =>
        /\ ~ray_ret.raises
        /\ ray_ret.squares = HalfLine(ray_args[1], ray_args[2], 0)
        /\ ray_args[1] \in ray_ret.squares
        /\ ray_args[2] \in ray_ret.squares

\* The docstring's call: from c3 towards f6.
C9_Witness ==
    /\ RayReturned
    /\ ray_args = <<square(2, 2), square(5, 5)>>
    /\ ray_ret.squares = {square(k, k) : k \in 2..7}

(***************************************************************************)
(* Strings of the claims.                                                  *)
(***************************************************************************)
EndsWith(s, suffix) ==
    /\ Len(s) >= Len(suffix)
    /\ SubSeq(s, Len(s) - Len(suffix) + 1, Len(s)) = suffix

Range(list) == {list[i] : i \in 1..Len(list)}

Nbd7 == <<"N", "b", "d", "7">>

Nfd7 == <<"N", "f", "d", "7">>

N8d7 == <<"N", "8", "d", "7">>

N5d7 == <<"N", "5", "d", "7">>

\* C1 as stated: the knight strings hold "Nbd7" and "Nfd7" and not "N8d7".
C1_NoRankDiscriminator ==
    MainPast("knight") =>
        /\ Nbd7 \in knight_sans
        /\ Nfd7 \in knight_sans
        /\ N8d7 \notin knight_sans

\* C1 amended: the knight strings hold "Nbd7" and "Nfd7" and "N8d7" as well,
\* because d7 is reached from b6 too, on the file of b8; the rank is left out
\* only for an origin that is alone on its file: "N5d7" is not in the set.
C1_RankDiscriminatorForSharedFile ==
    MainPast("knight") =>
        /\ Nbd7 \in knight_sans
        /\ Nfd7 \in knight_sans
        /\ N8d7 \in knight_sans
        /\ N5d7 \notin knight_sans

C1_Witness ==
    /\ MainPast("knight")
    /\ <<"N", "d", "7">> \in knight_sans
    /\ Nbd7 \in knight_sans

PromotionSuffixes == {<<"=", p>> : p \in {"N", "B", "R", "Q"}}

HasPromotion(s) == Len(s) >= 2 /\ s[Len(s) - 1] = "="

\* The move of a pawn string: the string without its promotion suffix.
MoveOf(s) == IF HasPromotion(s) THEN SubSeq(s, 1, Len(s) - 2) ELSE s

TargetRank(s) == MoveOf(s)[Len(MoveOf(s))]

\* The pushes and captures that end on the rank named r.
PawnMovesOnto(r) ==
    {<<FILE_NAMES[f], r>> : f \in 1..8}
    \cup {<<FILE_NAMES[f], "x", FILE_NAMES[g], r>> :
            <<f, g>> \in {<<f, g>> \in (1..8) \X (1..8) : Abs(f - g) = 1}}

\* C3: a pawn move onto rank 8 or rank 1 is in the set as exactly its four
\* promotions and never bare; a pawn string onto ranks 2..7 has no promotion
\* suffix.
C3_PromotionOnLastRank ==
    MainPast("pawn") =>
        \A s \in pawn_sans :
            IF TargetRank(s) \in {"1", "8"}
            THEN /\ HasPromotion(s)
                 /\ {x \in pawn_sans : MoveOf(x) = MoveOf(s)} =
                        {MoveOf(s) \o suffix : suffix \in PromotionSuffixes}
                 /\ MoveOf(s) \notin pawn_sans
            ELSE /\ ~HasPromotion(s)
                 /\ TargetRank(s) \in {"2", "3", "4", "5", "6", "7"}

\* Every push and capture onto either last rank is there with its promotions,
\* beside plain moves onto the other ranks.
C3_Witness ==
    /\ MainPast("pawn")
    /\ \A m \in PawnMovesOnto("8") \cup PawnMovesOnto("1") :
            \A suffix \in PromotionSuffixes : m \o suffix \in pawn_sans
    /\ <<"e", "4">> \in pawn_sans
    /\ <<"d", "x", "e", "5">> \in pawn_sans

Corners == {square(0, 0), square(0, 7), square(7, 0), square(7, 7)}

\* C4: the only bishop strings that end in a corner square t are "B<t>" and
\* "Bx<t>".
C4_BishopCornerBare ==
    MainPast("bishop") =>
        \A t \in Corners :
            {s \in bishop_sans : EndsWith(s, square_name(t))} =
                {<<"B">> \o square_name(t), <<"B", "x">> \o square_name(t)}

\* The bishop strings are there, with discriminators for other targets.
C4_Witness ==
    /\ MainPast("bishop")
    /\ <<"B", "a", "1">> \in bishop_sans
    /\ <<"B", "a", "b", "2">> \in bishop_sans
    /\ <<"B", "1", "b", "2">> \in bishop_sans

KingMoves ==
    {<<"K", FILE_NAMES[f], RANK_NAMES[r]>> : <<f, r>> \in (1..8) \X (1..8)}
    \cup {<<"K", "x", FILE_NAMES[f], RANK_NAMES[r]>> : <<f, r>> \in (1..8) \X (1..8)}

Occurrences(list, s) == Cardinality({i \in 1..Len(list) : list[i] = s})

\* C5: get_king_sans returns the 128 strings "K<sq>" and "Kx<sq>" and the two
\* castling tokens, 130 strings; no other generator returns a string that
\* starts with "K" or "O"; each castling token occurs once in sequence A.
C5_KingStrings ==
    /\ MainPast("king") =>
        /\ king_sans = KingMoves \cup {<<"O", "-", "O">>, <<"O", "-", "O", "-", "O">>}
        /\ Cardinality(king_sans) = 130
        /\ \A s \in pawn_sans \cup knight_sans \cup bishop_sans \cup rook_sans
                    \cup queen_sans : s[1] \notin {"K", "O"}
    /\ MainPast("sort") =>
        /\ Occurrences(all_sans, <<"O", "-", "O">>) = 1
        /\ Occurrences(all_sans, <<"O", "-", "O", "-", "O">>) = 1

C5_Witness ==
    /\ MainPast("sort")
    /\ <<"O", "-", "O">> \in Range(all_sans)
    /\ <<"K", "x", "e", "1">> \in king_sans
    /\ queen_sans # {}

StrictlyAscending(list) ==
    \A i \in 1..(Len(list) - 1) : SortKeyLess(list[i], list[i + 1])

\* C6: both sequences of main are strictly ascending by (length, code points).
C6_StrictlyAscending ==
    /\ MainPast("sort") => StrictlyAscending(all_sans)
    /\ MainPast("symbols") => StrictlyAscending(all_sans_with_symbols)

\* Both sequences are there, and each holds strings of different lengths and
\* strings of the same length.
C6_Witness ==
    /\ MainPast("symbols")
    /\ \E i \in 1..(Len(all_sans) - 1) : Len(all_sans[i]) < Len(all_sans[i + 1])
    /\ \E i \in 1..(Len(all_sans_with_symbols) - 1) :
            Len(all_sans_with_symbols[i]) = Len(all_sans_with_symbols[i + 1])
    /\ Len(all_sans_with_symbols) > Len(all_sans)

Suffixes == {<<>>, <<"+">>, <<"#">>}

\* C7: sequence B holds s, s+"+" and s+"#" for every string s of A and nothing
\* else; it has three times the entries of A, and no two pairs of a string
\* and a suffix give the same text.
C7_CrossProduct ==
    MainPast("symbols") =>
        /\ Range(all_sans_with_symbols) =
                {s \o suffix : <<s, suffix>> \in Range(all_sans) \X Suffixes}
        /\ Len(all_sans_with_symbols) = 3 * Len(all_sans)
        /\ Cardinality(Range(all_sans_with_symbols)) = 3 * Len(all_sans)
        /\ {<<"e", "4">>, <<"e", "4", "+">>, <<"e", "4", "#">>}
                \subseteq Range(all_sans_with_symbols)

C7_Witness ==
    /\ MainPast("symbols")
    /\ <<"e", "4">> \in Range(all_sans)
    /\ <<"e", "4", "#">> \in Range(all_sans_with_symbols)
    /\ <<"O", "-", "O", "+">> \in Range(all_sans_with_symbols)

\* C10: no assertion fails in a run of main: get_piece_sans is entered with a
\* symbol of N, B, R, Q only, a knight is no sliding piece, and in every pass
\* for a sliding piece each origin the board reports is a square other than
\* the target on a common line with it.
C10_NoAssertionFails ==
    /\ ~raised
    /\ call.fn = "get_piece_sans" =>
        /\ PieceSymbolAssert(call.arg)
        /\ is_sliding_piece(call.arg) <=> call.arg # "N"
        /\ idx < LoopLength(call) /\ is_sliding_piece(call.arg) =>
            \A from_square \in
                attacks(set_piece_at(clear_board(b), idx, call.arg), idx) :
                    SlidingDeltaAsserts(idx, from_square)

\* main ran to its end, through all four piece generators.
C10_Witness ==
    /\ main_pc = "done"
    /\ written
    /\ ~raised
    /\ knight_sans # {}
    /\ queen_sans # {}

\* What call c returns when it starts on `board`: its passes one after the
\* other from pass k on, `acc` holding the strings of the passes before.
RECURSIVE RunFrom(_, _, _, _)
RunFrom(board, c, k, acc) ==
    IF c.fn = "get_king_sans"
    THEN UNION {KingIteration(to_square) : to_square \in SQUARES} \cup CastlingSans
    ELSE IF k = LoopLength(c) THEN acc
    ELSE LET pass == IF c.fn = "get_pawn_sans" THEN PawnPass(board, c.arg, k)
                     ELSE PieceIteration(board, c.arg, k)
         IN  RunFrom(pass.board, c, k + 1, acc \cup pass.added)

\* What each call returns as the first call on the fresh board.
FirstCall == [c \in Calls |-> RunFrom(EmptyBoard, c, 0, {})]

\* C8: whatever calls ran before and whatever they left on the board, a call
\* returns the set it returns as the first call on the fresh board.
C8_SameAsFirstCall ==
    ret.call # NoCall => ret.value = FirstCall[ret.call]

\* get_piece_sans("Q") has returned with black to move, so after a call of
\* get_pawn_sans that left its pawns on the board.
C8_Witness ==
    /\ ret.call = PieceCall("Q")
    /\ b.turn = BLACK
    /\ call = NoCall
    /\ ret.value = FirstCall[PieceCall("Q")]

(***************************************************************************)
(* The brute-force reference of C2: pieces of one kind and colour are put  *)
(* on squares, the ones that can move to the target are found square by    *)
(* square, and the notation rule is applied to them.                       *)
(***************************************************************************)
\* A piece of the kind on p moves to t when the squares in `placed` hold
\* pieces: the shape of the move fits and no piece stands in between.
RefReaches(symbol, p, t, placed) ==
    LET dx == square_file(t) - square_file(p)
        dy == square_rank(t) - square_rank(p)
    IN  /\ p # t
        /\ CASE symbol = "N" -> {Abs(dx), Abs(dy)} = {1, 2}
             [] symbol = "B" -> Abs(dx) = Abs(dy)
             [] symbol = "R" -> dx = 0 \/ dy = 0
             [] symbol = "Q" -> dx = 0 \/ dy = 0 \/ Abs(dx) = Abs(dy)
        /\ \/ symbol = "N"
           \/ \A k \in 1..(Max(Abs(dx), Abs(dy)) - 1) :
                square(square_file(p) + k * sign(dx), square_rank(p) + k * sign(dy))
                    \notin placed

RefMovers(symbol, t, placed) == {p \in placed : RefReaches(symbol, p, t, placed)}

\* The discriminator of the move from o when the pieces on `movers` can all
\* make the move: none without another mover, the file of o if no other
\* mover is on it, else the rank of o if no other mover is on it, else the
\* square.
NotationRule(o, movers) ==
    LET others == movers \ {o}
    IN  IF others = {} THEN {}
        ELSE IF \A p \in others : square_file(p) # square_file(o)
        THEN {<<FILE_NAMES[square_file(o) + 1]>>}
        ELSE IF \A p \in others : square_rank(p) # square_rank(o)
        THEN {<<RANK_NAMES[square_rank(o) + 1]>>}
        ELSE {square_name(o)}

\* One other piece or two other pieces, on squares other than o and t.
Placements(o, t) ==
    LET free == SQUARES \ {o, t}
    IN  {{p} : p \in free} \cup
        {{pq[1], pq[2]} : pq \in {pq \in free \X free : pq[1] < pq[2]}}

\* The discriminators the move from o to t gets in some placement.
RefDiscriminators(symbol, t, o) ==
    UNION {LET movers == RefMovers(symbol, t, placed \cup {o})
           IN  IF o \in movers THEN NotationRule(o, movers) ELSE {} :
           placed \in Placements(o, t)}

\* C2: after the pass for target t the origins the board reports are the
\* squares the piece reaches t from on an empty board, the discriminators
\* added for each origin are those of the reference, and the strings that
\* end in t are the bare move and capture and the reference's strings.
C2_ReferenceDiscriminators ==
    call.fn = "get_piece_sans" /\ idx > 0 /\ ~raised =>
        LET symbol == call.arg
            t == idx - 1
            origins == {o \in SQUARES : RefReaches(symbol, o, t, {o})}
            reference == {<<o, RefDiscriminators(symbol, t, o)>> : o \in origins}
        IN  /\ attacks(b, t) = origins
            /\ \A ref \in reference :
                discriminators(is_sliding_piece(symbol), attacks(b, t), t, ref[1]) = ref[2]
            /\ {s \in sans : EndsWith(s, square_name(t))} =
                {<<symbol>> \o d \o capture \o square_name(t) :
                    <<d, capture>> \in
                        ({<<>>} \cup UNION {ref[2] : ref \in reference})
                        \X {<<>>, <<"x">>}}

\* The pass of the queen for d4 is done: from a1 to d4 the reference gives the
\* file, the rank and the square, and from a2 to a1 only the file.
C2_Witness ==
    /\ call = PieceCall("Q")
    /\ idx = square(3, 3) + 1
    /\ ~raised
    /\ RefDiscriminators("Q", square(3, 3), square(0, 0)) =
            {<<"a">>, <<"1">>, <<"a", "1">>}
    /\ RefDiscriminators("Q", square(0, 0), square(0, 1)) = {<<"a">>}
    /\ <<"Q", "a", "1", "x", "d", "4">> \in sans

====
